---- MODULE Spec2Model ----
(***************************************************************************)
(* The delimiter-free binary codec of ya-binary-format (types.rs) and the  *)
(* hand-written aggregate encoding of MyStruct (main.rs).                  *)
(*                                                                         *)
(* Representation of values                                                *)
(*   byte                 0..255                                           *)
(*   i8 / u8              an integer                                       *)
(*   16..128-bit integer  a little-endian sequence of 16-bit limbs (base   *)
(*                        65536); a signed type keeps its sign in the top  *)
(*                        limb (-32768..32767).  usize is 64 bits wide: 4  *)
(*                        limbs.  (2^32 does not fit a model integer.)     *)
(*   bool                 TRUE / FALSE                                     *)
(*   ()                   <<>>                                             *)
(*   String               its UTF-8 bytes (what String stores)             *)
(*   bytes::Bytes         its bytes                                        *)
(*   Option<T>            <<"None">> / <<"Some", v>>                       *)
(*   Box<T>               the boxed value                                  *)
(*   Vec / VecDeque       the sequence of elements                         *)
(*   HashSet              its elements in table (iteration) order          *)
(*   BTreeSet             its elements in ascending order                  *)
(*   BinaryHeap           its backing array (a max-heap)                   *)
(*   HashMap / BTreeMap   its <<key, value>> pairs in iteration order      *)
(*   tuple, MyStruct      the sequence of fields                           *)
(* A shape (the Rust type a call is instantiated at) is a tagged tuple:    *)
(*   <<"num", bytes, signed>>, <<"usize">>, <<"vec", T>>, ...              *)
(***************************************************************************)
EXTENDS Integers, Sequences, FiniteSets, TLC

\* Longest string / collection (elements) among the enumerated values.
MaxLen == 2
\* Length of the enumerated raw (not encoder-made) input buffers.
MaxRaw == 2
\* Element decodes of one decode call that are followed; a loop that needs
\* more is left "running".
MaxIter == 300

Byte == 0..255

---------------------------------------------------------------------------
(* Integers                                                                *)

\* 2^16, the base of the limbs
LimbBase == 256 * 256

\* uN::to_le_bytes / iN::to_le_bytes of a limb sequence: two bytes a limb,
\* low byte first (floor division: the top limb of a signed type may be
\* negative, its bytes are the two's complement pattern).
ToLeBytes(n) ==
    [i \in 1..(2 * Len(n)) |->
        IF i % 2 = 1 THEN n[(i + 1) \div 2] % 256
                     ELSE (n[i \div 2] \div 256) % 256]

\* uN::from_le_bytes / iN::from_le_bytes: what get_uN_le / get_iN_le return.
FromLeBytes(bs, signed) ==
    LET k   == Len(bs) \div 2
        raw == [i \in 1..k |-> bs[2 * i - 1] + 256 * bs[2 * i]]
    IN  IF signed /\ raw[k] >= LimbBase \div 2
        THEN [raw EXCEPT ![k] = @ - LimbBase]
        ELSE raw

\* i8/u8::to_le_bytes
ToLeBytes8(v) == <<v % 256>>

\* get_i8 / get_u8 of one byte
FromLeBytes8(b, signed) == IF signed /\ b >= 128 THEN b - 256 ELSE b

\* a < b on unsigned limb sequences of one length
LimbLess(a, b) ==
    \E i \in 1..Len(a) :
        /\ a[i] < b[i]
        /\ \A j \in (i + 1)..Len(a) : a[j] = b[j]

\* A length or loop index (a model integer, below 2^31) as a usize.
NatToUsize(k) == <<k % LimbBase, k \div LimbBase, 0, 0>>

\* `n as u8`
AsU8(n) == n[1] % 256

\* `n as u32` of a usize
AsU32(n) == SubSeq(n, 1, 2)

\* `n as u64` of a usize (64-bit target)
AsU64(n) == n

\* `x as usize` of a u32 or u64
AsUsize(x) == [i \in 1..4 |-> IF i <= Len(x) THEN x[i] ELSE 0]

---------------------------------------------------------------------------
(* Byte cursor (crate::Bytes) and decode results                           *)

\* Bytes::new
BytesNew(bs) == [buf |-> bs, pos |-> 0]

\* Buf::remaining
Remaining(b) == Len(b.buf) - b.pos

\* Buf::chunk: the unread bytes
Chunk(b) == SubSeq(b.buf, b.pos + 1, Len(b.buf))

\* Buf::advance (the caller has checked n <= Remaining(b))
Advance(b, n) == [b EXCEPT !.pos = @ + n]

\* A decode that returned v, leaving the cursor at b, after k element decodes.
Ok(v, b, k) == [st |-> "ok", val |-> v, cur |-> b, iters |-> k]

\* A decode that panicked ("underflow": Buf::get_* past the end, "slice":
\* a slice index past the end, "utf8": the expect on from_utf8), or whose
\* loop is still running after MaxIter element decodes ("running").
Stop(why, b, k) == [st |-> why, val |-> <<>>, cur |-> b, iters |-> k]

\* Buf::get_*: w bytes off the cursor; panics when fewer remain.
GetFixed(b, w) ==
    IF Remaining(b) < w
    THEN Stop("underflow", b, 0)
    ELSE Ok(SubSeq(b.buf, b.pos + 1, b.pos + w), Advance(b, w), 0)

---------------------------------------------------------------------------
(* Scalars                                                                 *)

\* num_impls!: to_bytes of a fixed-width integer of w bytes
ToBytesNum(w, v) == IF w = 1 THEN ToLeBytes8(v) ELSE ToLeBytes(v)

\* num_impls!: from_bytes of a fixed-width integer of w bytes
FromBytesNum(w, signed, b) ==
    LET r == GetFixed(b, w)
    IN  IF r.st # "ok" THEN r
        ELSE IF w = 1 THEN Ok(FromLeBytes8(r.val[1], signed), r.cur, 0)
        ELSE Ok(FromLeBytes(r.val, signed), r.cur, 0)

\* the literal 254 of `*self < 254`, as a usize
Lit254 == <<254, 0, 0, 0>>

\* `1 << 32`, as a usize
Shl32 == <<0, 0, 1, 0>>

\* ToBytesUsize with the first test written `*self <= 254`
ToBytesUsizeOffByOne(n) ==
    IF LimbLess(n, <<255, 0, 0, 0>>) THEN <<AsU8(n)>>
    ELSE IF LimbLess(n, Shl32) THEN <<254>> \o ToLeBytes(AsU32(n))
    ELSE <<255>> \o ToLeBytes(AsU64(n))

\* impl ToBytes for usize
ToBytesUsize(n) ==
    IF LimbLess(n, Lit254) THEN <<AsU8(n)>>
    ELSE IF LimbLess(n, Shl32) THEN <<254>> \o ToLeBytes(AsU32(n))
    ELSE <<255>> \o ToLeBytes(AsU64(n))

\* FromBytesUsize with the 255 arm reading get_u32_le
FromBytesUsizeShort255(b) ==
    LET m == GetFixed(b, 1)
    IN  IF m.st # "ok" THEN m
        ELSE IF m.val[1] \in {254, 255} THEN
            LET r == GetFixed(m.cur, 4)
            IN  IF r.st # "ok" THEN r
                ELSE Ok(AsUsize(FromLeBytes(r.val, FALSE)), r.cur, 0)
        ELSE Ok(AsUsize(<<m.val[1]>>), m.cur, 0)

\* impl FromBytes for usize
FromBytesUsize(b) ==
    LET m == GetFixed(b, 1)
    IN  IF m.st # "ok" THEN m
        ELSE IF m.val[1] = 254 THEN
            LET r == GetFixed(m.cur, 4)
            IN  IF r.st # "ok" THEN r
                ELSE Ok(AsUsize(FromLeBytes(r.val, FALSE)), r.cur, 0)
        ELSE IF m.val[1] = 255 THEN
            LET r == GetFixed(m.cur, 8)
            IN  IF r.st # "ok" THEN r
                ELSE Ok(AsUsize(FromLeBytes(r.val, FALSE)), r.cur, 0)
        ELSE Ok(AsUsize(<<m.val[1]>>), m.cur, 0)

\* impl ToBytes for ()
ToBytesUnit(v) == <<>>

\* impl FromBytes for ()
FromBytesUnit(b) == Ok(<<>>, b, 0)

\* b'0' and b'1'
Ascii0 == 48
Ascii1 == 49

\* impl ToBytes for bool
ToBytesBool(v) == IF v THEN <<Ascii1>> ELSE <<Ascii0>>

\* FromBytesBool written `b.get_u8() != b'0'`
FromBytesBoolNotZero(b) ==
    LET r == GetFixed(b, 1)
    IN  IF r.st # "ok" THEN r ELSE Ok(r.val[1] # Ascii0, r.cur, 0)

\* impl FromBytes for bool
FromBytesBool(b) ==
    LET r == GetFixed(b, 1)
    IN  IF r.st # "ok" THEN r ELSE Ok(r.val[1] = Ascii1, r.cur, 0)

---------------------------------------------------------------------------
(* Strings and byte buffers                                                *)

\* a UTF-8 continuation byte
IsCont(c) == c \in 128..191

\* The position after the character that starts after position p of bs, or
\* -1 when no well-formed character starts there (no overlong forms, no
\* surrogates, nothing above U+10FFFF): one step of the from_utf8 scan
Utf8Next(bs, p) ==
    LET c == bs[p + 1]
        n == Len(bs) - p
    IN  IF c < 128 THEN p + 1
        ELSE IF c \in 194..223 THEN
            IF n >= 2 /\ IsCont(bs[p + 2]) THEN p + 2 ELSE -1
        ELSE IF c \in 224..239 THEN
            IF /\ n >= 3
               /\ bs[p + 2] \in (IF c = 224 THEN 160..191
                                 ELSE IF c = 237 THEN 128..159 ELSE 128..191)
               /\ IsCont(bs[p + 3])
            THEN p + 3 ELSE -1
        ELSE IF c \in 240..244 THEN
            IF /\ n >= 4
               /\ bs[p + 2] \in (IF c = 240 THEN 144..191
                                 ELSE IF c = 244 THEN 128..143 ELSE 128..191)
               /\ IsCont(bs[p + 3])
               /\ IsCont(bs[p + 4])
            THEN p + 4 ELSE -1
        ELSE -1

\* c steps of the scan from position p (the steps are split in halves to
\* keep the evaluation shallow); the scan stays at the end and at -1
RECURSIVE Utf8Scan(_, _, _)
Utf8Scan(bs, p, c) ==
    IF c = 0 \/ p = -1 \/ p = Len(bs) THEN p
    ELSE IF c = 1 THEN Utf8Next(bs, p)
    ELSE Utf8Scan(bs, Utf8Scan(bs, p, c \div 2), c - c \div 2)

\* String::from_utf8(..).is_ok()
IsUtf8(bs) == Utf8Scan(bs, 0, Len(bs)) = Len(bs)

\* A usize known to be at most a buffer length, as a model integer.
UsizeToNat(n) == n[1] + LimbBase * n[2]

\* ChunkTo written `&b.chunk()[..n.min(b.remaining())]`
ChunkToClamped(b, n) ==
    IF LimbLess(NatToUsize(Remaining(b)), n)
    THEN Ok(Chunk(b), b, 0)
    ELSE Ok(SubSeq(Chunk(b), 1, UsizeToNat(n)), b, 0)

\* `&b.chunk()[..n]`: the first n unread bytes; panics when n is past the end.
ChunkTo(b, n) ==
    IF LimbLess(NatToUsize(Remaining(b)), n)
    THEN Stop("slice", b, 0)
    ELSE Ok(SubSeq(Chunk(b), 1, UsizeToNat(n)), b, 0)

\* impl ToBytes for String
ToBytesString(v) == ToBytesUsize(NatToUsize(Len(v))) \o v

\* FromBytesString without `b.advance(n)`
FromBytesStringNoAdvance(b) ==
    LET n == FromBytesUsize(b)
    IN  IF n.st # "ok" THEN n
        ELSE
            LET s == ChunkTo(n.cur, n.val)
            IN  IF s.st # "ok" THEN s
                ELSE IF ~IsUtf8(s.val) THEN Stop("utf8", n.cur, 0)
                ELSE Ok(s.val, n.cur, 0)

\* impl FromBytes for String
FromBytesString(b) ==
    LET n == FromBytesUsize(b)
    IN  IF n.st # "ok" THEN n
        ELSE
            LET s == ChunkTo(n.cur, n.val)
            IN  IF s.st # "ok" THEN s
                ELSE IF ~IsUtf8(s.val) THEN Stop("utf8", n.cur, 0)
                ELSE Ok(s.val, Advance(n.cur, Len(s.val)), 0)

\* impl ToBytes for bytes::Bytes
ToBytesBuffer(v) == ToBytesUsize(NatToUsize(Len(v))) \o v

\* impl FromBytes for bytes::Bytes
FromBytesBuffer(b) ==
    LET n == FromBytesUsize(b)
    IN  IF n.st # "ok" THEN n
        ELSE
            LET s == ChunkTo(n.cur, n.val)
            IN  IF s.st # "ok" THEN s
                ELSE Ok(s.val, Advance(n.cur, Len(s.val)), 0)

---------------------------------------------------------------------------
(* Ordering and the std collections the decoders collect into              *)

\* bs < cs, lexicographically (Ord of String and of byte slices)
SeqLess(bs, cs) ==
    \/ /\ Len(bs) < Len(cs)
       /\ \A i \in 1..Len(bs) : bs[i] = cs[i]
    \/ \E i \in 1..(IF Len(bs) < Len(cs) THEN Len(bs) ELSE Len(cs)) :
        /\ bs[i] < cs[i]
        /\ \A j \in 1..(i - 1) : bs[j] = cs[j]

\* x < y by the Ord of shape T (the shapes sets, heaps and map keys are
\* instantiated at: integers, usize, bool, String, bytes)
OrdLess(T, x, y) ==
    CASE T[1] = "num"    -> IF T[2] = 1 THEN x < y ELSE LimbLess(x, y)
      [] T[1] = "usize"  -> LimbLess(x, y)
      [] T[1] = "bool"   -> ~x /\ y
      [] T[1] \in {"string", "bytes"} -> SeqLess(x, y)
      [] OTHER           -> FALSE

\* HashSet: FromIterator: insert in read order; an element already there is
\* not inserted again
RECURSIVE HashSetFromIter(_)
HashSetFromIter(es) ==
    IF es = <<>> THEN <<>>
    ELSE
        LET front == HashSetFromIter(SubSeq(es, 1, Len(es) - 1))
            x     == es[Len(es)]
        IN  IF \E i \in 1..Len(front) : front[i] = x
            THEN front
            ELSE Append(front, x)

\* BTreeSet: FromIterator: the distinct elements in ascending order
RECURSIVE BTreeSetFromIter(_, _)
BTreeSetFromIter(T, es) ==
    IF es = <<>> THEN <<>>
    ELSE
        LET front == BTreeSetFromIter(T, SubSeq(es, 1, Len(es) - 1))
            x     == es[Len(es)]
            k     == Cardinality({i \in 1..Len(front) : OrdLess(T, front[i], x)})
        IN  IF \E i \in 1..Len(front) : front[i] = x
            THEN front
            ELSE SubSeq(front, 1, k) \o <<x>> \o SubSeq(front, k + 1, Len(front))

\* BinaryHeap::sift_down on the backing array a (1-based), from position pos
RECURSIVE SiftDown(_, _, _)
SiftDown(T, a, pos) ==
    LET l == 2 * pos
        r == 2 * pos + 1
    IN  IF l > Len(a) THEN a
        ELSE
            LET c == IF r <= Len(a) /\ ~OrdLess(T, a[r], a[l]) THEN r ELSE l
            IN  IF ~OrdLess(T, a[pos], a[c]) THEN a
                ELSE SiftDown(T, [a EXCEPT ![pos] = a[c], ![c] = a[pos]], c)

\* BinaryHeap::rebuild: sift down the positions n/2 .. 1, last first
RECURSIVE Rebuild(_, _, _)
Rebuild(T, a, n) == IF n = 0 THEN a ELSE Rebuild(T, SiftDown(T, a, n), n - 1)

\* BinaryHeap: FromIterator: collect into a Vec, then rebuild
BinaryHeapFromIter(T, es) == Rebuild(T, es, Len(es) \div 2)

\* HashMap: FromIterator: insert in read order; a key already there keeps
\* its place and takes the new value
RECURSIVE HashMapFromIter(_)
HashMapFromIter(ps) ==
    IF ps = <<>> THEN <<>>
    ELSE
        LET front == HashMapFromIter(SubSeq(ps, 1, Len(ps) - 1))
            p     == ps[Len(ps)]
        IN  IF \E i \in 1..Len(front) : front[i][1] = p[1]
            THEN [i \in 1..Len(front) |->
                    IF front[i][1] = p[1] THEN p ELSE front[i]]
            ELSE Append(front, p)

\* BTreeMap: FromIterator: ascending by key, the last value of a key wins
RECURSIVE BTreeMapFromIter(_, _)
BTreeMapFromIter(K, ps) ==
    IF ps = <<>> THEN <<>>
    ELSE
        LET front == BTreeMapFromIter(K, SubSeq(ps, 1, Len(ps) - 1))
            p     == ps[Len(ps)]
            k     == Cardinality({i \in 1..Len(front) :
                                    OrdLess(K, front[i][1], p[1])})
        IN  IF \E i \in 1..Len(front) : front[i][1] = p[1]
            THEN [i \in 1..Len(front) |->
                    IF front[i][1] = p[1] THEN p ELSE front[i]]
            ELSE SubSeq(front, 1, k) \o <<p>> \o SubSeq(front, k + 1, Len(front))

\* The shapes that go through iter_to_impl! / iter_from_impl!
IterKinds == {"vec", "hset", "bset", "deque", "heap"}

\* The shapes that go through kv_to_impl! / kv_from_impl!
KvKinds == {"hmap", "bmap"}

\* .collect() of the decoded elements into the collection of shape ty
Collect(ty, es) ==
    CASE ty[1] \in {"vec", "deque"} -> es
      [] ty[1] = "hset" -> HashSetFromIter(es)
      [] ty[1] = "bset" -> BTreeSetFromIter(ty[2], es)
      [] ty[1] = "heap" -> BinaryHeapFromIter(ty[2], es)
      [] ty[1] = "hmap" -> HashMapFromIter(es)
      [] ty[1] = "bmap" -> BTreeMapFromIter(ty[2], es)

---------------------------------------------------------------------------
(* Encoders                                                                *)

\* ByteWriter::write, call after call: the byte strings in order, appended
RECURSIVE WriteRange(_, _, _)
WriteRange(ss, lo, hi) ==
    IF lo > hi THEN <<>>
    ELSE IF lo = hi THEN ss[lo]
    ELSE WriteRange(ss, lo, (lo + hi) \div 2)
            \o WriteRange(ss, (lo + hi) \div 2 + 1, hi)

\* (the range is split in halves to keep the evaluation shallow)
WriteAll(ss) == WriteRange(ss, 1, Len(ss))

RECURSIVE ToBytes(_, _)

\* impl ToBytes for Option<T>
ToBytesOption(T, v) ==
    IF v[1] = "None" THEN <<Ascii0>> ELSE <<Ascii1>> \o ToBytes(T, v[2])

\* impl ToBytes for Box<T>
ToBytesBox(T, v) == ToBytes(T, v)

\* iter_to_impl!
IterToImpl(T, v) ==
    ToBytesUsize(NatToUsize(Len(v)))
        \o WriteAll([i \in 1..Len(v) |-> ToBytes(T, v[i])])

\* kv_to_impl!
KvToImpl(K, V, v) ==
    ToBytesUsize(NatToUsize(Len(v)))
        \o WriteAll([i \in 1..Len(v) |->
                        ToBytes(K, v[i][1]) \o ToBytes(V, v[i][2])])

\* TupleToBytes writing the arity first, as the collections do
TupleToBytesCounted(Ts, v) ==
    ToBytesUsize(NatToUsize(Len(Ts)))
        \o WriteAll([i \in 1..Len(Ts) |-> ToBytes(Ts[i], v[i])])

\* tuple_impls!: to_bytes, the fields of shapes Ts
TupleToBytes(Ts, v) == WriteAll([i \in 1..Len(Ts) |-> ToBytes(Ts[i], v[i])])

\* The fields of MyStruct: a: i32, v: Vec<usize>, o1: Option<i8>,
\* o2: Option<u16>, s: String
MyStructFields ==
    << <<"num", 4, TRUE>>, <<"vec", <<"usize">>>>,
       <<"option", <<"num", 1, TRUE>>>>, <<"option", <<"num", 2, FALSE>>>>,
       <<"string">> >>

\* impl ToRedisArgs for MyStruct: the buffer the fields are written to
MyStructBuf(v) ==
    ToBytes(MyStructFields[1], v[1]) \o ToBytes(MyStructFields[2], v[2])
        \o ToBytes(MyStructFields[3], v[3]) \o ToBytes(MyStructFields[4], v[4])
        \o ToBytes(MyStructFields[5], v[5])

\* impl ToRedisArgs for MyStruct: write_redis_args, the arguments written
WriteRedisArgs(v) == <<MyStructBuf(v)>>

\* T::to_bytes at shape ty
ToBytes(ty, v) ==
    CASE ty[1] = "num"      -> ToBytesNum(ty[2], v)
      [] ty[1] = "usize"    -> ToBytesUsize(v)
      [] ty[1] = "unit"     -> ToBytesUnit(v)
      [] ty[1] = "bool"     -> ToBytesBool(v)
      [] ty[1] = "string"   -> ToBytesString(v)
      [] ty[1] = "bytes"    -> ToBytesBuffer(v)
      [] ty[1] = "option"   -> ToBytesOption(ty[2], v)
      [] ty[1] = "box"      -> ToBytesBox(ty[2], v)
      [] ty[1] \in IterKinds -> IterToImpl(ty[2], v)
      [] ty[1] \in KvKinds  -> KvToImpl(ty[2], ty[3], v)
      [] ty[1] = "tuple"    -> TupleToBytes(ty[2], v)
      [] ty[1] = "MyStruct" -> WriteRedisArgs(v)[1]

---------------------------------------------------------------------------
(* Decoders                                                                *)

RECURSIVE FromBytes(_, _)

\* FromBytesOption written `if b.get_u8() == b'1' { Some(..) } else { None }`
FromBytesOptionStrict(T, b) ==
    LET f == GetFixed(b, 1)
    IN  IF f.st # "ok" THEN f
        ELSE IF f.val[1] # Ascii1 THEN Ok(<<"None">>, f.cur, 0)
        ELSE
            LET r == FromBytes(T, f.cur)
            IN  IF r.st # "ok" THEN r ELSE Ok(<<"Some", r.val>>, r.cur, r.iters)

\* impl FromBytes for Option<T>
FromBytesOption(T, b) ==
    LET f == GetFixed(b, 1)
    IN  IF f.st # "ok" THEN f
        ELSE IF f.val[1] = Ascii0 THEN Ok(<<"None">>, f.cur, 0)
        ELSE
            LET r == FromBytes(T, f.cur)
            IN  IF r.st # "ok" THEN r ELSE Ok(<<"Some", r.val>>, r.cur, r.iters)

\* impl FromBytes for Box<T>
FromBytesBox(T, b) == FromBytes(T, b)

\* One call of the closure |_| T::from_bytes(b) of the map: s holds the
\* elements decoded so far, the cursor and the element decodes started
MapStep(T, s) ==
    IF s.st # "ok" THEN s
    ELSE
        LET e == FromBytes(T, s.cur)
        IN  IF e.st # "ok" THEN Stop(e.st, e.cur, s.iters + 1 + e.iters)
            ELSE Ok(Append(s.val, e.val), e.cur, s.iters + 1 + e.iters)

\* c calls of the closure, one after the other (split in halves to keep the
\* evaluation shallow)
RECURSIVE MapSteps(_, _, _)
MapSteps(T, s, c) ==
    IF c = 0 \/ s.st # "ok" THEN s
    ELSE IF c = 1 THEN MapStep(T, s)
    ELSE MapSteps(T, MapSteps(T, s, c \div 2), c - c \div 2)

\* MapRange over `0..=n`
MapRangeInclusive(T, n, b) ==
    LET more == LimbLess(NatToUsize(MaxIter), n)
        r    == MapSteps(T, Ok(<<>>, b, 0),
                         IF more THEN MaxIter ELSE UsizeToNat(n) + 1)
    IN  IF more /\ r.st = "ok" THEN Stop("running", r.cur, r.iters) ELSE r

\* (0..n).map(|_| T::from_bytes(b)): n calls, of which MaxIter are followed
MapRange(T, n, b) ==
    LET more == LimbLess(NatToUsize(MaxIter), n)
        r    == MapSteps(T, Ok(<<>>, b, 0), IF more THEN MaxIter ELSE UsizeToNat(n))
    IN  IF more /\ r.st = "ok" THEN Stop("running", r.cur, r.iters) ELSE r

\* iter_from_impl! at collection shape ty
IterFromImpl(ty, b) ==
    LET n == FromBytesUsize(b)
    IN  IF n.st # "ok" THEN n
        ELSE
            LET r == MapRange(ty[2], n.val, n.cur)
            IN  IF r.st # "ok" THEN r ELSE Ok(Collect(ty, r.val), r.cur, r.iters)

\* tuple_impls!: from_bytes, the fields from the i-th on
RECURSIVE TupleFromBytes(_, _, _, _, _)
TupleFromBytes(Ts, i, b, acc, k) ==
    IF i > Len(Ts) THEN Ok(acc, b, k)
    ELSE
        LET r == FromBytes(Ts[i], b)
        IN  IF r.st # "ok" THEN Stop(r.st, r.cur, k + r.iters)
            ELSE TupleFromBytes(Ts, i + 1, r.cur, Append(acc, r.val), k + r.iters)

\* kv_from_impl! at map shape ty: each pair is the tuple (K, V) decoded
KvFromImpl(ty, b) ==
    LET n == FromBytesUsize(b)
    IN  IF n.st # "ok" THEN n
        ELSE
            LET r == MapRange(<<"tuple", <<ty[2], ty[3]>>>>, n.val, n.cur)
            IN  IF r.st # "ok" THEN r ELSE Ok(Collect(ty, r.val), r.cur, r.iters)

\* MyStructFromData with the o1 and o2 lines in the other order
MyStructFromDataSwapped(b) ==
    LET a == FromBytes(MyStructFields[1], b)
    IN  IF a.st # "ok" THEN a
    ELSE
    LET v == FromBytes(MyStructFields[2], a.cur)
    IN  IF v.st # "ok" THEN Stop(v.st, v.cur, v.iters)
    ELSE
    LET o2 == FromBytes(MyStructFields[4], v.cur)
    IN  IF o2.st # "ok" THEN Stop(o2.st, o2.cur, v.iters)
    ELSE
    LET o1 == FromBytes(MyStructFields[3], o2.cur)
    IN  IF o1.st # "ok" THEN Stop(o1.st, o1.cur, v.iters)
    ELSE
    LET s == FromBytes(MyStructFields[5], o1.cur)
    IN  IF s.st # "ok" THEN Stop(s.st, s.cur, v.iters)
    ELSE Ok(<<a.val, v.val, o1.val, o2.val, s.val>>, s.cur, v.iters)

\* impl FromRedisValue for MyStruct, the Value::Data arm: the fields off one
\* cursor, in declaration order
MyStructFromData(b) ==
    LET a == FromBytes(MyStructFields[1], b)
    IN  IF a.st # "ok" THEN a
    ELSE
    LET v == FromBytes(MyStructFields[2], a.cur)
    IN  IF v.st # "ok" THEN Stop(v.st, v.cur, v.iters)
    ELSE
    LET o1 == FromBytes(MyStructFields[3], v.cur)
    IN  IF o1.st # "ok" THEN Stop(o1.st, o1.cur, v.iters)
    ELSE
    LET o2 == FromBytes(MyStructFields[4], o1.cur)
    IN  IF o2.st # "ok" THEN Stop(o2.st, o2.cur, v.iters)
    ELSE
    LET s == FromBytes(MyStructFields[5], o2.cur)
    IN  IF s.st # "ok" THEN Stop(s.st, s.cur, v.iters)
    ELSE Ok(<<a.val, v.val, o1.val, o2.val, s.val>>, s.cur, v.iters)

\* T::from_bytes at shape ty
FromBytes(ty, b) ==
    CASE ty[1] = "num"      -> FromBytesNum(ty[2], ty[3], b)
      [] ty[1] = "usize"    -> FromBytesUsize(b)
      [] ty[1] = "unit"     -> FromBytesUnit(b)
      [] ty[1] = "bool"     -> FromBytesBool(b)
      [] ty[1] = "string"   -> FromBytesString(b)
      [] ty[1] = "bytes"    -> FromBytesBuffer(b)
      [] ty[1] = "option"   -> FromBytesOption(ty[2], b)
      [] ty[1] = "box"      -> FromBytesBox(ty[2], b)
      [] ty[1] \in IterKinds -> IterFromImpl(ty, b)
      [] ty[1] \in KvKinds  -> KvFromImpl(ty, b)
      [] ty[1] = "tuple"    -> TupleFromBytes(ty[2], 1, b, <<>>, 0)
      [] ty[1] = "MyStruct" -> MyStructFromData(b)

\* impl FromRedisValue for MyStruct: a Value::Data reply is decoded off a
\* cursor over its bytes (MyStructFromData, through the dispatch at shape
\* MyStruct), any other reply is the TypeError "Expect bytes response"
FromRedisValue(reply) ==
    IF reply[1] = "Data"
    THEN FromBytes(<<"MyStruct">>, BytesNew(reply[2]))
    ELSE Stop("TypeError", BytesNew(<<>>), 0)

---------------------------------------------------------------------------
(* PartialEq                                                               *)

\* a == b at shape ty: the hash collections (instantiated at the top level
\* only) compare as sets whatever their table order, everything else
\* compares structurally
ValEq(ty, a, b) ==
    IF ty[1] \in {"hset", "hmap"}
    THEN {a[i] : i \in 1..Len(a)} = {b[i] : i \in 1..Len(b)}
    ELSE a = b

---------------------------------------------------------------------------
(* The shapes and values the operations are applied to                     *)

U8 == <<"num", 1, FALSE>>
I8 == <<"num", 1, TRUE>>
U16 == <<"num", 2, FALSE>>
I16 == <<"num", 2, TRUE>>
U32 == <<"num", 4, FALSE>>
I32 == <<"num", 4, TRUE>>
U64 == <<"num", 8, FALSE>>
I64 == <<"num", 8, TRUE>>
U128 == <<"num", 16, FALSE>>
I128 == <<"num", 16, TRUE>>
Usize == <<"usize">>
Unit == <<"unit">>
Bool == <<"bool">>
String == <<"string">>
Buffer == <<"bytes">>
MyStruct == <<"MyStruct">>

Shapes ==
    { U8, I8, U16, I16, U32, I32, U64, I64, U128, I128, Usize, Unit, Bool,
      String, Buffer,
      <<"option", U16>>, <<"option", Unit>>, <<"option", String>>,
      <<"option", <<"option", Bool>>>>,
      <<"box", Usize>>, <<"box", <<"option", I8>>>>,
      <<"vec", U8>>, <<"vec", Usize>>, <<"vec", Unit>>, <<"vec", String>>,
      <<"vec", <<"vec", U8>>>>, <<"vec", <<"option", U8>>>>,
      <<"hset", I32>>, <<"bset", U8>>, <<"bset", String>>,
      <<"deque", I16>>, <<"heap", U8>>,
      <<"hmap", I32, String>>, <<"bmap", U8, <<"option", Bool>>>>,
      <<"tuple", <<I8>>>>, <<"tuple", <<I8, U32>>>>,
      <<"tuple", <<I8, U32, Usize>>>>, <<"tuple", <<I8, U32, Usize, I128>>>>,
      <<"tuple", <<<<"option", U32>>, Bool>>>>,
      <<"tuple", <<Bool, <<"vec", U8>>, String, I32>>>>,
      <<"tuple", <<U8, Unit, Bool, I8, U16>>>>,
      <<"tuple", <<Bool, U8, Bool, U8, Bool, U8>>>>,
      <<"tuple", <<U8, Bool, Unit, I8, U16, Usize, <<"option", U8>>>>>> }

\* All sequences over S of length at most n
RECURSIVE SeqsUpTo(_, _)
SeqsUpTo(S, n) ==
    IF n = 0 THEN {<<>>}
    ELSE LET shorter == SeqsUpTo(S, n - 1)
         IN  shorter \cup {Append(s, x) : s \in {t \in shorter : Len(t) = n - 1}, x \in S}

\* The tuples whose i-th field is drawn from Ds[i]
RECURSIVE Product(_)
Product(Ds) ==
    IF Ds = <<>> THEN {<<>>}
    ELSE {<<x>> \o rest : x \in Ds[1], rest \in Product(Tail(Ds))}

\* n copies of x
Repeat(x, n) == [i \in 1..n |-> x]

\* Values of a w-byte integer: 0, 1, the largest, a pattern of distinct
\* bytes, and for a signed type -1, -5 and the smallest; fewer when nested.
NumValues(w, signed, d) ==
    IF w = 1 THEN
        IF signed THEN (IF d = 0 THEN {-128, -5, -1, 0, 1, 127} ELSE {-5, 1})
        ELSE (IF d = 0 THEN {0, 1, 48, 49, 253, 254, 255} ELSE {0, 49, 255})
    ELSE
        LET k    == w \div 2
            top  == IF signed THEN LimbBase \div 2 - 1 ELSE LimbBase - 1
            max  == [i \in 1..k |-> IF i = k THEN top ELSE LimbBase - 1]
            one  == [i \in 1..k |-> IF i = 1 THEN 1 ELSE 0]
            b256 == [i \in 1..k |-> IF i = 1 THEN 256 ELSE 0]
            pat  == [i \in 1..k |-> (2 * i - 1) + 256 * (2 * i)]
            neg1 == [i \in 1..k |-> IF i = k THEN -1 ELSE LimbBase - 1]
            neg5 == [i \in 1..k |-> IF i = k
                                    THEN (IF k = 1 THEN -5 ELSE -1)
                                    ELSE IF i = 1 THEN LimbBase - 5
                                    ELSE LimbBase - 1]
            min  == [i \in 1..k |-> IF i = k THEN 0 - LimbBase \div 2 ELSE 0]
        IN  IF d = 0
            THEN {Repeat(0, k), one, b256, max, pat}
                    \cup (IF signed THEN {neg1, neg5, min} ELSE {})
            ELSE {b256, IF signed THEN neg5 ELSE max}

\* usize values around the tier boundaries 254 and 2^32
UsizeValues(d) ==
    IF d = 0
    THEN { NatToUsize(n) : n \in {0, 1, 253, 254, 255, 256, 300, 65535, 65536} }
            \cup { <<65535, 65535, 0, 0>>, <<0, 0, 1, 0>>, <<1, 0, 1, 0>>,
                   <<0, 0, 256, 0>>, <<65535, 65535, 65535, 65535>> }
    ELSE { NatToUsize(0), NatToUsize(254), <<0, 0, 1, 0>> }

\* "a", U+00E9, U+3042, U+1F600 in UTF-8
Chars(d) ==
    IF d = 0
    THEN { <<97>>, <<195, 169>>, <<227, 129, 130>>, <<240, 159, 152, 128>> }
    ELSE { <<97>>, <<227, 129, 130>> }

\* Longest collection at nesting depth d
LenAt(d) == IF d = 0 THEN MaxLen ELSE MaxLen - 1

\* Length of the values whose count takes the 5-byte form
LongLen == Lit254[1]

\* Whether the sequence a is a max-heap
IsHeap(T, a) == \A i \in 2..Len(a) : ~OrdLess(T, a[i \div 2], a[i])

\* The value main() stores: a = 123, v = [0, 1, 254, 255, 1 << 40],
\* o1 = None, o2 = Some(256), s = "あいうえおabcdefg"
MainValue ==
    << <<123, 0>>,
       << NatToUsize(0), NatToUsize(1), NatToUsize(254), NatToUsize(255),
          <<0, 0, 256, 0>> >>,
       <<"None">>, <<"Some", <<256>>>>,
       << 227, 129, 130, 227, 129, 132, 227, 129, 134, 227, 129, 136,
          227, 129, 138, 97, 98, 99, 100, 101, 102, 103 >> >>

\* The enumerated values of shape ty at nesting depth d
RECURSIVE Values(_, _)
Values(ty, d) ==
    CASE ty[1] = "num"    -> NumValues(ty[2], ty[3], d)
      [] ty[1] = "usize"  -> UsizeValues(d)
      [] ty[1] = "unit"   -> {<<>>}
      [] ty[1] = "bool"   -> {TRUE, FALSE}
      [] ty[1] = "string" ->
            {WriteAll(cs) : cs \in SeqsUpTo(Chars(d), LenAt(d))}
                \cup (IF d = 0 THEN {Repeat(97, LongLen)} ELSE {})
      [] ty[1] = "bytes"  -> SeqsUpTo({0, 195, 255}, LenAt(d))
      [] ty[1] = "option" ->
            {<<"None">>} \cup {<<"Some", v>> : v \in Values(ty[2], d + 1)}
      [] ty[1] = "box"    -> Values(ty[2], d)
      [] ty[1] \in {"vec", "deque"} ->
            SeqsUpTo(Values(ty[2], d + 1), LenAt(d))
                \cup (IF d = 0 /\ ty[2] \in {U8, Unit}
                      THEN {Repeat(CHOOSE x \in Values(ty[2], 1) : TRUE, n) :
                                n \in {LongLen - 1, LongLen}}
                      ELSE {})
      [] ty[1] = "hset"   ->
            {s \in SeqsUpTo(Values(ty[2], d + 1), LenAt(d)) :
                \A i, j \in 1..Len(s) : s[i] = s[j] => i = j}
      [] ty[1] = "bset"   ->
            {s \in SeqsUpTo(Values(ty[2], d + 1), LenAt(d)) :
                \A i \in 1..(Len(s) - 1) : OrdLess(ty[2], s[i], s[i + 1])}
      [] ty[1] = "heap"   ->
            {s \in SeqsUpTo(Values(ty[2], d + 1), LenAt(d) + 1) : IsHeap(ty[2], s)}
      [] ty[1] = "hmap"   ->
            {s \in SeqsUpTo(Values(ty[2], d + 1) \X Values(ty[3], d + 1), LenAt(d)) :
                \A i, j \in 1..Len(s) : s[i][1] = s[j][1] => i = j}
      [] ty[1] = "bmap"   ->
            {s \in SeqsUpTo(Values(ty[2], d + 1) \X Values(ty[3], d + 1), LenAt(d)) :
                \A i \in 1..(Len(s) - 1) : OrdLess(ty[2], s[i][1], s[i + 1][1])}
      [] ty[1] = "tuple"  ->
            Product([i \in 1..Len(ty[2]) |-> Values(ty[2][i], d + 1)])
                \cup (IF ty[2] = <<I8, U32, Usize>>
                      THEN {<<-5, <<10, 0>>, <<300, 0, 0, 0>>>>}
                      ELSE {})
      [] ty[1] = "MyStruct" ->
            Product([i \in 1..Len(MyStructFields) |-> Values(MyStructFields[i], d + 1)])
                \cup {MainValue}

\* Bytes of the raw input buffers
RawAlphabet == {0, 1, 2, Ascii0, Ascii1, 50, 253, 254, 255}

\* Size encodings in the 5-byte and the 9-byte form, whatever the value
WideForms ==
    { <<254>> \o ToLeBytes(x) :
        x \in {<<0, 0>>, <<5, 0>>, <<253, 0>>, <<254, 0>>, <<300, 0>>,
               <<0, 1>>, <<65535, 65535>>} }
    \cup
    { <<255>> \o ToLeBytes(x) :
        x \in {<<0, 0, 0, 0>>, <<5, 0, 0, 0>>, <<254, 0, 0, 0>>,
               <<65535, 65535, 0, 0>>, <<0, 0, 1, 0>>,
               <<65535, 65535, 65535, 65535>>} }

\* A flag byte and the two bytes of a u16
FlagForms == { <<f, lo, hi>> : f \in {0, Ascii0, Ascii1, 50, 255}, lo \in {0, 255}, hi \in {1} }

\* The raw input buffers: every short byte string, the wide size forms and
\* the flag forms
RawBufs == SeqsUpTo(RawAlphabet, MaxRaw) \cup WideForms \cup FlagForms

\* Bytes that may follow an encoding in a buffer (the next field's)
Suffixes == { <<0>>, <<Ascii1, 255>>, <<254, 1, 0, 0, 0>> }

---------------------------------------------------------------------------
(* The state machine: encode a value, put a cursor on bytes, decode        *)

VARIABLES
    pc,      \* "idle", "encoded", "cursor", "done"
    ty,      \* the shape the calls are instantiated at
    val,     \* the value encoded
    out,     \* the sink: the Vec<u8> to_bytes wrote to
    args,    \* the arguments write_redis_args wrote
    origin,  \* where the cursor's bytes come from
    cur,     \* the cursor handed to from_bytes
    res      \* what from_bytes did

vars == <<pc, ty, val, out, args, origin, cur, res>>

NoRes == Stop("none", BytesNew(<<>>), 0)

Init ==
    /\ pc = "idle"
    /\ ty = Unit
    /\ val = <<>>
    /\ out = <<>>
    /\ args = <<>>
    /\ origin = "none"
    /\ cur = BytesNew(<<>>)
    /\ res = NoRes

\* tests::encode_decode, first half: t.to_bytes(&mut b) on a new Vec
Encode ==
    /\ pc = "idle"
    /\ \E t \in Shapes : \E v \in Values(t, 0) :
        /\ ty' = t
        /\ val' = v
        /\ out' = ToBytes(t, v)
    /\ pc' = "encoded"
    /\ UNCHANGED <<args, origin, cur, res>>

\* a.to_redis_args() of a MyStruct
ToRedisArgs ==
    /\ pc = "idle"
    /\ \E v \in Values(MyStruct, 0) :
        /\ val' = v
        /\ args' = WriteRedisArgs(v)
    /\ ty' = MyStruct
    /\ pc' = "encoded"
    /\ UNCHANGED <<out, origin, cur, res>>

\* The bytes written: the sink, or the last argument (args.pop())
Payload == IF ty = MyStruct THEN args[Len(args)] ELSE out

\* Bytes::new over everything that was written
CursorFull ==
    /\ pc = "encoded"
    /\ cur' = BytesNew(Payload)
    /\ origin' = "full"
    /\ pc' = "cursor"
    /\ UNCHANGED <<ty, val, out, args, res>>

\* Bytes::new over a truncated copy
CursorPrefix ==
    /\ pc = "encoded"
    /\ \E k \in 0..(Len(Payload) - 1) : cur' = BytesNew(SubSeq(Payload, 1, k))
    /\ origin' = "prefix"
    /\ pc' = "cursor"
    /\ UNCHANGED <<ty, val, out, args, res>>

\* Bytes::new over a buffer in which other bytes follow
CursorExtended ==
    /\ pc = "encoded"
    /\ \E sfx \in Suffixes : cur' = BytesNew(Payload \o sfx)
    /\ origin' = "extended"
    /\ pc' = "cursor"
    /\ UNCHANGED <<ty, val, out, args, res>>

\* Bytes::new over bytes no encoder of this run wrote
CursorRaw ==
    /\ pc = "idle"
    /\ \E t \in Shapes \cup {MyStruct} : \E bs \in RawBufs :
        /\ ty' = t
        /\ cur' = BytesNew(bs)
    /\ origin' = "raw"
    /\ pc' = "cursor"
    /\ UNCHANGED <<val, out, args, res>>

\* T::from_bytes(&mut b); a MyStruct comes from FromRedisValue of the reply
\* Value::Data holding the bytes
Decode ==
    /\ pc = "cursor"
    /\ res' = IF ty = MyStruct
              THEN FromRedisValue(<<"Data", cur.buf>>)
              ELSE FromBytes(ty, cur)
    /\ pc' = "done"
    /\ UNCHANGED <<ty, val, out, args, origin, cur>>

\* MyStruct::from_redis_value of a reply that is not Value::Data
DecodeOtherReply ==
    /\ pc = "idle"
    /\ \E reply \in {<<"Nil">>, <<"Okay">>, <<"Int", 1>>} :
        res' = FromRedisValue(reply)
    /\ ty' = MyStruct
    /\ origin' = "reply"
    /\ pc' = "done"
    /\ UNCHANGED <<val, out, args, cur>>

Next ==
    \/ Encode
    \/ ToRedisArgs
    \/ CursorFull
    \/ CursorPrefix
    \/ CursorExtended
    \/ CursorRaw
    \/ Decode
    \/ DecodeOtherReply

Spec == Init /\ [][Next]_vars

---------------------------------------------------------------------------
(* Properties                                                              *)

\* The decode panicked
Aborted(r) == r.st \in {"underflow", "slice", "utf8"}

\* val holds a value and the sink (or args) its encoding
Written == pc # "idle" /\ origin \in {"none", "full", "prefix", "extended"}

\* The decode of the cursor's bytes is over
Decoded(from) == pc = "done" /\ origin = from

\* The shapes with a PartialEq (BinaryHeap has none)
HasEq(t) == t[1] # "heap"

\* The numeric value of the k bytes of bs from position p + 1 on equals the
\* unsigned limb sequence n (two bytes a limb, low byte first)
BytesAre(bs, p, n) ==
    \A i \in 1..Len(n) : bs[p + 2 * i - 1] + 256 * bs[p + 2 * i] = n[i]

\* C1: round-trip law.  Decoding everything the encoder wrote for V, at the
\* same shape, returns a value equal to V and leaves 0 bytes in the cursor.
RoundTrip ==
    (Decoded("full") /\ HasEq(ty)) =>
        /\ res.st = "ok"
        /\ ValEq(ty, res.val, val)
        /\ Remaining(res.cur) = 0
        /\ res.cur.pos = Len(Payload)

\* C1 witness: a Vec<usize> of MaxLen elements, the last one 2^32 (9-byte
\* form), has been encoded and decoded back.
RoundTripWitness ==
    /\ Decoded("full")
    /\ ty = <<"vec", Usize>>
    /\ Len(val) = MaxLen
    /\ val[MaxLen] = Shl32
    /\ res.st = "ok"

\* C2: size tiers.  encode_size(n) is the one byte n when n < 254, the 5
\* bytes 254 + u32-LE when 254 <= n < 2^32, the 9 bytes 255 + u64-LE when
\* n >= 2^32; so 254 and 255 take the 5-byte form.
SizeTiers ==
    (Written /\ ty \in {Usize, <<"box", Usize>>}) =>
        IF val[1] < 254 /\ val[2] = 0 /\ val[3] = 0 /\ val[4] = 0
        THEN out = <<val[1]>>
        ELSE IF val[3] = 0 /\ val[4] = 0
        THEN /\ Len(out) = 5
             /\ out[1] = 254
             /\ BytesAre(out, 1, SubSeq(val, 1, 2))
        ELSE /\ Len(out) = 9
             /\ out[1] = 255
             /\ BytesAre(out, 1, val)

\* C2 witness: 255 has been encoded, in 5 bytes.
SizeTiersWitness ==
    /\ pc = "encoded"
    /\ ty = Usize
    /\ val = <<255, 0, 0, 0>>
    /\ out = <<254, 255, 0, 0, 0>>

\* The bytes a successful decode consumed
Consumed == SubSeq(cur.buf, 1, res.cur.pos)

\* C3 as stated: every byte sequence the Size decoder accepts and decodes
\* to n is the sequence the Size encoder emits for n.
SizeDecodeCanonical ==
    (pc = "done" /\ ty = Usize /\ res.st = "ok") =>
        Consumed = ToBytesUsize(res.val)

\* C3 amended: a byte sequence the Size decoder accepts and decodes to n is
\* the sequence the encoder emits for n whenever it has the length of the
\* tier documented for n; any other accepted sequence is a wide form (marker
\* 254 or 255) longer than the encoder's, carrying a value of a narrower
\* tier.
SizeDecodeCanonicalInTier ==
    (pc = "done" /\ ty = Usize /\ res.st = "ok") =>
        /\ Len(Consumed) = Len(ToBytesUsize(res.val))
            => Consumed = ToBytesUsize(res.val)
        /\ Consumed # ToBytesUsize(res.val)
            => /\ Consumed[1] \in {254, 255}
               /\ Len(Consumed) > Len(ToBytesUsize(res.val))

\* C3 witness: the 5-byte form carrying 5 has been decoded to 5, which the
\* encoder writes as one byte.
SizeDecodeWitness ==
    /\ Decoded("raw")
    /\ ty = Usize
    /\ cur.buf = <<254, 5, 0, 0, 0>>
    /\ res.st = "ok"
    /\ res.val = <<5, 0, 0, 0>>
    /\ ToBytesUsize(res.val) = <<5>>

\* C4: fatal on truncation.  Decoding a strict prefix of encode(V) panics;
\* so does decoding a fixed-width integer from fewer bytes than its width,
\* and a string or buffer from fewer bytes than its one-byte length prefix
\* declares.
FatalOnTruncation ==
    /\ Decoded("prefix") => Aborted(res)
    /\ (Decoded("raw") /\ ty[1] = "num" /\ Len(cur.buf) < ty[2])
            => Aborted(res)
    /\ (Decoded("raw") /\ ty[1] \in {"string", "bytes"} /\ cur.buf # <<>>)
            => (cur.buf[1] < 254 /\ Len(cur.buf) - 1 < cur.buf[1]
                    => Aborted(res))

\* C4 witness: a String whose bytes were cut short after the length prefix
\* has panicked on the slice.
FatalOnTruncationWitness ==
    /\ Decoded("prefix")
    /\ ty = String
    /\ Len(cur.buf) >= 2
    /\ res.st = "slice"

\* C5: aggregate encoding.  write_redis_args of a MyStruct writes exactly
\* one argument, the fields' encodings in declaration order; decoding it
\* returns the record.  Every decode (a field's, the record's) of an
\* encoding followed by other bytes returns the value and leaves the cursor
\* on the first byte that follows.
AggregateEncoding ==
    /\ (Written /\ ty = MyStruct) =>
        /\ Len(args) = 1
        /\ args[1] = WriteAll([i \in 1..Len(MyStructFields) |->
                                ToBytes(MyStructFields[i], val[i])])
    /\ (Decoded("full") /\ ty = MyStruct) =>
        /\ res.st = "ok"
        /\ res.val = val
    /\ (Decoded("extended") /\ HasEq(ty)) =>
        /\ res.st = "ok"
        /\ ValEq(ty, res.val, val)
        /\ res.cur.pos = Len(Payload)
        /\ Remaining(res.cur) = Len(cur.buf) - Len(Payload)

\* C5 witness: the record main() stores has been decoded from a buffer in
\* which other bytes follow it.
AggregateEncodingWitness ==
    /\ Decoded("extended")
    /\ ty = MyStruct
    /\ val = MainValue
    /\ res.st = "ok"
    /\ Remaining(res.cur) > 0

\* The count a collection's bytes declare, and the cursor after it
DeclaredCount == FromBytesUsize(cur)

\* C6: collection layout.  A collection is written as Size(element count)
\* then the elements in iteration order, a map pair as key then value.  A
\* decode that returns has read a count c and then c elements (pairs): a
\* Vec or VecDeque has exactly c elements, the other collections at most c;
\* the elements of a Vec<u8> are the c bytes after the count, in wire order.
CollectionLayout ==
    /\ (Written /\ ty[1] \in IterKinds) =>
        out = ToBytesUsize(NatToUsize(Len(val)))
                \o WriteAll([i \in 1..Len(val) |-> ToBytes(ty[2], val[i])])
    /\ (Written /\ ty[1] \in KvKinds) =>
        out = ToBytesUsize(NatToUsize(Len(val)))
                \o WriteAll([i \in 1..Len(val) |->
                        ToBytes(ty[2], val[i][1]) \o ToBytes(ty[3], val[i][2])])
    /\ (pc = "done" /\ ty[1] \in IterKinds \cup KvKinds /\ res.st = "ok") =>
        /\ DeclaredCount.st = "ok"
        /\ IF ty[1] \in {"vec", "deque"}
           THEN NatToUsize(Len(res.val)) = DeclaredCount.val
           ELSE ~LimbLess(DeclaredCount.val, NatToUsize(Len(res.val)))
        /\ ty = <<"vec", U8>> =>
            /\ res.cur.pos = DeclaredCount.cur.pos + Len(res.val)
            /\ \A i \in 1..Len(res.val) :
                res.val[i] = cur.buf[DeclaredCount.cur.pos + i]
        /\ ty = <<"vec", Unit>> => res.cur.pos = DeclaredCount.cur.pos

\* C6 witness: a Vec<u8> of 254 elements (count in the 5-byte form) has been
\* decoded.
CollectionLayoutWitness ==
    /\ Decoded("full")
    /\ ty = <<"vec", U8>>
    /\ Len(val) = LongLen
    /\ SubSeq(cur.buf, 1, 5) = <<254, 254, 0, 0, 0>>
    /\ res.st = "ok"
    /\ Len(res.val) = LongLen

\* C7: optional layout.  None is the one byte 0x30; Some(v) is 0x31 then
\* T's encoding of v (Some(256) of Option<u16> is 31 00 01).  Decoding reads
\* one flag byte: 0x30 gives None and consumes nothing more; any other flag
\* decodes one T and gives Some of it (and panics when that decode does).
OptionLayout ==
    /\ (Written /\ ty[1] = "option") =>
        /\ val[1] = "None" => out = <<48>>
        /\ val[1] = "Some" =>
            /\ out[1] = 49
            /\ SubSeq(out, 2, Len(out)) = ToBytes(ty[2], val[2])
        /\ (ty = <<"option", U16>> /\ val = <<"Some", <<256>>>>)
            => out = <<49, 0, 1>>
    /\ (pc = "done" /\ ty[1] = "option" /\ cur.buf # <<>>) =>
        IF cur.buf[1] = 48
        THEN /\ res.st = "ok"
             /\ res.val = <<"None">>
             /\ res.cur.pos = 1
        ELSE LET inner == FromBytes(ty[2], [buf |-> cur.buf, pos |-> 1])
             IN  IF inner.st = "ok"
                 THEN /\ res.st = "ok"
                      /\ res.val = <<"Some", inner.val>>
                      /\ res.cur = inner.cur
                 ELSE res.st = inner.st

\* C7 witness: an Option<u16> has been decoded from a flag byte that is
\* neither 0x30 nor 0x31, to Some.
OptionLayoutWitness ==
    /\ Decoded("raw")
    /\ ty = <<"option", U16>>
    /\ Len(cur.buf) = 3
    /\ cur.buf[1] = 50
    /\ res.st = "ok"
    /\ res.val[1] = "Some"

\* C8: boolean asymmetry.  true is written as the byte 0x31, false as 0x30;
\* decoding consumes one byte and returns true iff that byte is 0x31.
BoolAsymmetry ==
    /\ (Written /\ ty = Bool) => out = IF val THEN <<49>> ELSE <<48>>
    /\ (pc = "done" /\ ty = Bool /\ cur.buf # <<>>) =>
        /\ res.st = "ok"
        /\ res.cur.pos = 1
        /\ res.val = (cur.buf[1] = 49)

\* C8 witness: the byte 0x32 has been decoded as a bool, to false.
BoolAsymmetryWitness ==
    /\ Decoded("raw")
    /\ ty = Bool
    /\ Len(cur.buf) = 1
    /\ cur.buf[1] = 50
    /\ res.st = "ok"
    /\ res.val = FALSE

\* The tuple (i8 -5, u32 10, usize 300) of the scalar-tuple scenario
ScenarioShape == <<"tuple", <<I8, U32, Usize>>>>
ScenarioTuple == <<-5, <<10, 0>>, <<300, 0, 0, 0>>>>

\* C9: tuple layout.  A tuple is written as its fields' encodings in
\* declared order, with no count prefix, and decoded field by field in that
\* order; (i8 -5, u32 10, usize 300) is FB 0A 00 00 00 FE 2C 01 00 00 and
\* decodes back with 0 bytes left.
TupleLayout ==
    /\ (Written /\ ty[1] = "tuple") =>
        /\ out = WriteAll([i \in 1..Len(ty[2]) |-> ToBytes(ty[2][i], val[i])])
        /\ Len(val) = Len(ty[2])
    /\ (Written /\ ty = ScenarioShape /\ val = ScenarioTuple) =>
        out = <<251, 10, 0, 0, 0, 254, 44, 1, 0, 0>>
    /\ (Decoded("full") /\ ty[1] = "tuple") =>
        /\ res.st = "ok"
        /\ res.val = val
        /\ Remaining(res.cur) = 0
    /\ (pc = "done" /\ ty = <<"tuple", <<I8, U32>>>> /\ Len(cur.buf) >= 5) =>
        /\ res.st = "ok"
        /\ res.val[1] = FromLeBytes8(cur.buf[1], TRUE)
        /\ BytesAre(cur.buf, 1, res.val[2])

\* C9 witness: the scenario's tuple has been encoded and decoded back.
TupleLayoutWitness ==
    /\ Decoded("full")
    /\ ty = ScenarioShape
    /\ val = ScenarioTuple
    /\ Len(cur.buf) = 10
    /\ res.st = "ok"

\* C10 as stated: a decode starts no more element decodes than the buffer
\* has bytes (every element decode is paid for by a byte of the input).
DecodeCostBounded == pc = "done" => res.iters <= Len(cur.buf)

====
